---- MODULE Spec2Model ----
(***************************************************************************)
(* Model of packages/core/src/plugins/bindings.ts: the Fetcher class and   *)
(* the BindingsPlugin lifecycle (beforeReload / reload / dispose) with the *)
(* promise that gates named-service dispatches, and the composition of the *)
(* binding mapping in setup().                                             *)
(*                                                                         *)
(* Promises are modelled by generation numbers: beforeReload creates       *)
(* promise number n, `resolved` is the set of promise numbers that have    *)
(* been resolved. 0 stands for `undefined` in #contextPromise and          *)
(* #contextResolve. An optional value is a sequence of length 0 or 1.      *)
(***************************************************************************)
EXTENDS Integers, Sequences, FiniteSets, Bags, TLC

\* ------------------------------------------------------------------ bounds
MaxTasks == 2
MaxGen == 2

\* ---------------------------------------------------------------- universe
Services == {"auth"}
Handlers == {"H1", "H2"}
CustomHandlers == {"F"}
Names == {"A", "B"}
NameOrder == << "A", "B" >>

NotMounted == "-"
None == ""

\* A mount table: Map<string, Mount>; NotMounted marks a key the map lacks.
\* Every mount carries its dispatchFetch (bindings.ts:226-227), and two mounts
\* never share one entry point.
MountTables ==
  {m \in [Services -> Handlers \cup {NotMounted}] :
     \A s1, s2 \in Services : s1 # s2 /\ m[s1] = m[s2] => m[s1] = NotMounted}

Has(m, s) == m[s] # NotMounted

Undefined == << >>
Some(x) == << x >>

\* ------------------------------------------------------------------ errors
Err(code, service, name, id) ==
  [code |-> code, service |-> service, name |-> name, id |-> id]

NoError == Err(None, None, None, 0)
AssertionError == Err("ERR_ASSERTION", None, None, 0)
ServiceNotMounted(service, name) == Err("ERR_SERVICE_NOT_MOUNTED", service, name, 0)
\* the error object a handler throws while serving dispatch number t
HandlerError(h, t) == Err("thrown", h, None, t)

\* ---------------------------------------------------------------- outcomes
Pending == [kind |-> "pending", status |-> 0, cfWorkerStatus |-> None,
            from |-> None, error |-> NoError]
HandlerResponse(h) == [kind |-> "response", status |-> 200, cfWorkerStatus |-> None,
                       from |-> h, error |-> NoError]
ExceptionResponse == [kind |-> "response", status |-> 500,
                      cfWorkerStatus |-> "exception",
                      from |-> None, error |-> NoError]
Rejected(e) == [kind |-> "rejected", status |-> 0, cfWorkerStatus |-> None,
                from |-> None, error |-> e]

\* ---------------------------------------------------------------- bindings
StringService(s) == [type |-> "string", id |-> s]
FunctionService(f) == [type |-> "function", id |-> f]
NoService == [type |-> "none", id |-> None]
ServiceTargets == {StringService(s) : s \in Services}
                    \cup {FunctionService(f) : f \in CustomHandlers}

ProcessedServiceBinding == [name : Names, service : ServiceTargets]

SeqsUpTo(S, n) == UNION {[1..k -> S] : k \in 0..n}

DistinctNames(bs) == \A i, j \in DOMAIN bs : bs[i].name = bs[j].name => i = j

\* Object.entries(this.serviceBindings ?? {}): keys of an object are distinct
ServiceBindingsOptions ==
  {bs \in SeqsUpTo(ProcessedServiceBinding, Cardinality(Names)) : DistinctNames(bs)}

\* the same up to the choice of the names: the i-th binding has the i-th name
NamedInOrder == {bs \in ServiceBindingsOptions :
                   \A i \in DOMAIN bs : bs[i].name = NameOrder[i]}

BindingIds == 1..Cardinality(Names)

VARIABLES
  processedServiceBindings, \* #processedServiceBindings
  contextPromise,           \* #contextPromise: 0 or the promise's number
  contextResolve,           \* #contextResolve: 0 or the number of the promise it resolves
  resolved,                 \* the promises that have been resolved
  mounts,                   \* #mounts: Undefined or Some(table)
  tasks,                    \* the fetch calls: position and result of each
  log,                      \* the bag of errors this.#log.error received
  lastCall,                 \* the last lifecycle call and the error it threw
  options,                  \* the plugin's option fields as passed to the constructor
  fs,                       \* what fs.readFile gives for the files setup reads
  setupResult               \* what setup() returned or threw

vars == << options, fs, setupResult, processedServiceBindings, contextPromise, contextResolve, resolved,
           mounts, tasks, log, lastCall >>

TaskIds == 1..MaxTasks

\* service is the #service of the Fetcher that fetch was called on; gen and
\* fetch are the locals of a fetch call in progress. `issued` records
\* the entry point the mount table held for the target when fetch was called
\* (history only; no step of the code reads it).
IdleTask == [pc |-> "idle", service |-> NoService, gen |-> 0, fetch |-> None,
             invoked |-> None, thrown |-> NoError, outcome |-> Pending,
             issued |-> None]

Call(op, e) == [op |-> op, error |-> e]

ServiceOf(t) == tasks[t].service

\* what the current #mounts reference holds for service s, None when there is
\* no table or no such key: this.#mounts?.get(service)?.dispatchFetch
DispatchFetch(s) ==
  IF mounts = Undefined THEN None
  ELSE IF Has(mounts[1], s) THEN mounts[1][s] ELSE None

\* ------------------------------------------------------------------- setup
\* A binding value; Absent marks a name the Context object lacks.
Value(kind, val) == [kind |-> kind, val |-> val]
Absent == Value("absent", None)
Fetcher(service) == Value("Fetcher", service.id)
WasmModule(path) == Value("WebAssembly.Module", path)

WranglerValue == Value("string", "wrangler-value")
FileValue == Value("string", "file-value")
UserValue == Value("string", "override")

\* an object's own entries in insertion order: << name, value >> pairs
Entries(V) ==
  {es \in SeqsUpTo(Names \X V, Cardinality(Names)) :
     \A i, j \in DOMAIN es : es[i][1] = es[j][1] => i = j}

EmptyContext == [n \in Names |-> Absent]

\* Object.assign(target, source)
RECURSIVE ObjectAssign(_, _)
ObjectAssign(target, source) ==
  IF source = << >> THEN target
  ELSE ObjectAssign([target EXCEPT ![source[1][1]] = source[1][2]], Tail(source))

\* envPath: undefined, a boolean or a path
EnvUndefined == [type |-> "undefined", val |-> None]
EnvBoolean(b) == [type |-> "boolean", val |-> IF b THEN "true" ELSE "false"]
EnvString(path) == [type |-> "string", val |-> path]
EnvPaths == {EnvUndefined, EnvBoolean(TRUE), EnvBoolean(FALSE), EnvString("custom.env")}
WasmPaths == {"module.wasm"}

\* path.resolve(this.ctx.rootPath, p)
Resolve(p) == << "rootPath", p >>

\* lines 204-206
ConstructorEnvPath(o) ==
  IF o.envPathDefaultFallback /\ o.envPath = EnvUndefined
    THEN EnvBoolean(TRUE) ELSE o.envPath

\* line 248
SetupEnvPath(o) ==
  IF ConstructorEnvPath(o) = EnvBoolean(TRUE)
    THEN EnvString(".env") ELSE ConstructorEnvPath(o)

\* line 249: undefined and false are falsy, the paths here are non-empty
Truthy(ep) == ep.type = "string"

ReadOk(entries) == [code |-> None, entries |-> entries]
ReadFails(code) == [code |-> code, entries |-> << >>]
EnvReads == {ReadOk(es) : es \in Entries({FileValue})}
              \cup {ReadFails("ENOENT"), ReadFails("EACCES")}

Options ==
  [kWranglerBindings : Entries({WranglerValue}),
   envPath : EnvPaths,
   envPathDefaultFallback : BOOLEAN,
   wasmBindings : Entries({WasmModule(w) : w \in WasmPaths}),
   bindings : Entries({UserValue})]

NoOptions ==
  [kWranglerBindings |-> << >>, envPath |-> EnvUndefined,
   envPathDefaultFallback |-> FALSE, wasmBindings |-> << >>, bindings |-> << >>]

FileSystems == [env : EnvReads, wasm : {None, "ENOENT"}]
EmptyFs == [env |-> ReadFails("ENOENT"), wasm |-> None]

NotRun == [state |-> "not run", error |-> NoError, bindings |-> EmptyContext,
           watch |-> << >>]
Returned(b, w) == [state |-> "returned", error |-> NoError, bindings |-> b,
                   watch |-> w]
Threw(code) == [state |-> "threw", error |-> Err(code, None, None, 0),
                bindings |-> EmptyContext, watch |-> << >>]

\* lines 274-280: one Fetcher per processed service binding
ServiceEntries(psb) == [i \in DOMAIN psb |-> << psb[i].name, Fetcher(psb[i].service) >>]

\* composition with the user's bindings assigned before the service bindings
ComposeUserBelowServices(wrangler, env, wasm, services, user) ==
  ObjectAssign(ObjectAssign(ObjectAssign(ObjectAssign(ObjectAssign(
    EmptyContext, wrangler), env), wasm), user), services)

\* lines 241-283: the five assignments in order
Compose(wrangler, env, wasm, services, user) ==
  ObjectAssign(ObjectAssign(ObjectAssign(ObjectAssign(ObjectAssign(
    EmptyContext, wrangler), env), wasm), services), user)

\* a catch clause that swallowed file-not-found for any path
IgnoresAnyEnoent(o, code) ==
  code = "ENOENT"

\* lines 256-259: the read failed; is the failure swallowed
IgnoresEnvFailure(o, code) ==
  code = "ENOENT" /\ ConstructorEnvPath(o) = EnvBoolean(TRUE)

\* lines 233-286
SetupOutcome(o, f, psb) ==
  LET ep == SetupEnvPath(o)
      reads == Truthy(ep)
      envFailed == reads /\ f.env.code # None
      env == IF reads /\ ~envFailed THEN f.env.entries ELSE << >>
      watchEnv == IF reads THEN << Resolve(ep.val) >> ELSE << >>
      wasmPaths == [i \in DOMAIN o.wasmBindings |-> Resolve(o.wasmBindings[i][2].val)]
  IN IF envFailed /\ ~IgnoresEnvFailure(o, f.env.code) THEN Threw(f.env.code)
     ELSE IF o.wasmBindings # << >> /\ f.wasm # None THEN Threw(f.wasm)
     ELSE Returned(Compose(o.kWranglerBindings, env, o.wasmBindings,
                           ServiceEntries(psb), o.bindings),
                   watchEnv \o wasmPaths)

\* -------------------------------------------------------------------- Init
Init ==
  /\ processedServiceBindings \in NamedInOrder
  /\ contextPromise = 0
  /\ contextResolve = 0
  /\ resolved = {}
  /\ mounts = Undefined
  /\ tasks = [t \in TaskIds |-> IdleTask]
  /\ log = EmptyBag
  /\ lastCall = Call("none", NoError)
  /\ options = NoOptions
  /\ fs = EmptyFs
  /\ setupResult = NotRun

\* ----------------------------------------------------------- Fetcher.fetch
\* fetch calls are numbered in call order
NextToIssue(t) ==
  /\ tasks[t].pc = "idle"
  /\ \A u \in TaskIds : u < t => tasks[u].pc # "idle"

\* a fetch that contained the custom handler's failure like a service's
CustomResultContained(h, t, ok) ==
  IF ok THEN HandlerResponse(h) ELSE ExceptionResponse

\* line 70: a custom handler is called directly and its promise returned
CustomResult(h, t, ok) ==
  IF ok THEN HandlerResponse(h) ELSE Rejected(HandlerError(h, t))

CustomLog(h, t, ok) == log

\* a fetch that asserted on #contextPromise before looking at the kind of
\* its service
FetchCustomAsserting(t, b) ==
  /\ NextToIssue(t)
  /\ b \in DOMAIN processedServiceBindings
  /\ processedServiceBindings[b].service.type = "function"
  /\ \E ok \in BOOLEAN :
       LET h == processedServiceBindings[b].service.id IN
       /\ tasks' = [tasks EXCEPT ![t] =
            IF contextPromise = 0
              THEN [@ EXCEPT !.pc = "done", !.service = FunctionService(h),
                             !.outcome = Rejected(AssertionError)]
              ELSE [@ EXCEPT !.pc = "done", !.service = FunctionService(h),
                             !.invoked = h,
                             !.thrown = IF ok THEN NoError ELSE HandlerError(h, t),
                             !.outcome = CustomResult(h, t, ok)]]
       /\ log' = CustomLog(h, t, ok)
  /\ UNCHANGED << options, fs, setupResult, processedServiceBindings, contextPromise, contextResolve,
                  resolved, mounts, lastCall >>

FetchCustom(t, b) ==
  /\ NextToIssue(t)
  /\ b \in DOMAIN processedServiceBindings
  /\ processedServiceBindings[b].service.type = "function"
  /\ \E ok \in BOOLEAN :
       LET h == processedServiceBindings[b].service.id IN
       /\ tasks' = [tasks EXCEPT ![t] =
            [@ EXCEPT !.pc = "done", !.service = FunctionService(h), !.invoked = h,
                      !.thrown = IF ok THEN NoError ELSE HandlerError(h, t),
                      !.outcome = CustomResult(h, t, ok)]]
       /\ log' = CustomLog(h, t, ok)
  /\ UNCHANGED << options, fs, setupResult, processedServiceBindings, contextPromise, contextResolve,
                  resolved, mounts, lastCall >>

\* an await of #getServiceFetch placed inside the try block
AssertionContained == ExceptionResponse

\* a lookup that reported the missing entry point as an unmounted service
LookupThrowsNotMounted == Rejected(ServiceNotMounted(None, None))

\* lines 73, 220-223 and 229: a failed assertion rejects #getServiceFetch, and
\* the await of line 73 is outside the try block
AssertionRejects == Rejected(AssertionError)

\* lines 73 and 218-224: the assertion on #contextPromise, then the await
FetchService(t, b) ==
  /\ NextToIssue(t)
  /\ b \in DOMAIN processedServiceBindings
  /\ processedServiceBindings[b].service.type = "string"
  /\ LET s == processedServiceBindings[b].service.id IN
     IF contextPromise = 0
       THEN tasks' = [tasks EXCEPT ![t] =
              [@ EXCEPT !.pc = "done", !.service = StringService(s),
                        !.outcome = AssertionRejects]]
       ELSE tasks' = [tasks EXCEPT ![t] =
              [@ EXCEPT !.pc = "waiting", !.service = StringService(s),
                        !.issued = DispatchFetch(s),
                        !.gen = contextPromise]]
  /\ UNCHANGED << options, fs, setupResult, processedServiceBindings, contextPromise, contextResolve,
                  resolved, mounts, log, lastCall >>

\* a lookup in the table that was current when the dispatch was issued
LookupFetchAtIssue(t) == tasks[t].issued

\* the entry point a resuming dispatch reads (line 228)
LookupFetch(t) == DispatchFetch(ServiceOf(t).id)

\* lines 224-230: the await returns once the promise is resolved
GetServiceFetch(t) ==
  /\ tasks[t].pc = "waiting"
  /\ tasks[t].gen \in resolved
  /\ LET f == LookupFetch(t) IN
     IF f = None
       THEN tasks' = [tasks EXCEPT ![t] =
              [@ EXCEPT !.pc = "done", !.gen = 0, !.issued = None,
                        !.outcome = AssertionRejects]]
       ELSE tasks' = [tasks EXCEPT ![t] =
              [@ EXCEPT !.pc = "invoking", !.gen = 0, !.fetch = f]]
  /\ UNCHANGED << options, fs, setupResult, processedServiceBindings, contextPromise, contextResolve,
                  resolved, mounts, log, lastCall >>

\* a catch block that logged and threw the error again
CatchResultRethrow(e) == Rejected(e)

\* lines 77-85: the catch block's response and what it logs
CatchResult(e) == ExceptionResponse

CatchLog(e) == log (+) SetToBag({e})

\* lines 75-86: call the entry point; a throw or rejection is caught
Invoke(t) ==
  /\ tasks[t].pc = "invoking"
  /\ \E ok \in BOOLEAN :
       LET h == tasks[t].fetch
           e == HandlerError(h, t)
       IN IF ok
            THEN /\ tasks' = [tasks EXCEPT ![t] =
                       [@ EXCEPT !.pc = "done", !.fetch = None, !.issued = None,
                                 !.invoked = h,
                                 !.outcome = HandlerResponse(h)]]
                 /\ log' = log
            ELSE /\ tasks' = [tasks EXCEPT ![t] =
                       [@ EXCEPT !.pc = "done", !.fetch = None, !.issued = None,
                                 !.invoked = h, !.thrown = e,
                                 !.outcome = CatchResult(e)]]
                 /\ log' = CatchLog(e)
  /\ UNCHANGED << options, fs, setupResult, processedServiceBindings, contextPromise, contextResolve,
                  resolved, mounts, lastCall >>

\* ---------------------------------------------------------- BindingsPlugin
\* a beforeReload that created the promise only when there was none
CloseKeepPromise(op) ==
  /\ contextPromise < MaxGen
  /\ mounts' = Undefined
  /\ contextPromise' = IF contextPromise = 0 THEN 1 ELSE contextPromise
  /\ contextResolve' = IF contextPromise = 0 THEN 1 ELSE contextResolve
  /\ lastCall' = Call(op, NoError)
  /\ UNCHANGED << options, fs, setupResult, processedServiceBindings, resolved, tasks, log >>

\* a beforeReload that left the mount table in place
CloseKeepMounts(op) ==
  /\ contextPromise < MaxGen
  /\ mounts' = mounts
  /\ contextPromise' = contextPromise + 1
  /\ contextResolve' = contextPromise + 1
  /\ lastCall' = Call(op, NoError)
  /\ UNCHANGED << options, fs, setupResult, processedServiceBindings, resolved, tasks, log >>

\* a beforeReload that resolved the promise it replaces
CloseReleasingOld(op) ==
  /\ contextPromise < MaxGen
  /\ mounts' = Undefined
  /\ contextPromise' = contextPromise + 1
  /\ contextResolve' = contextPromise + 1
  /\ resolved' = resolved \cup ({contextPromise} \ {0})
  /\ lastCall' = Call(op, NoError)
  /\ UNCHANGED << options, fs, setupResult, processedServiceBindings, tasks, log >>

\* lines 288-295; the executor stores the new promise's resolve function
Close(op) ==
  /\ contextPromise < MaxGen
  /\ mounts' = Undefined
  /\ contextPromise' = contextPromise + 1
  /\ contextResolve' = contextPromise + 1
  /\ lastCall' = Call(op, NoError)
  /\ UNCHANGED << options, fs, setupResult, processedServiceBindings, resolved, tasks, log >>

BeforeReload == Close("beforeReload")

\* a dispose that only dropped the mount table
DisposeDropOnly ==
  /\ mounts' = Undefined
  /\ lastCall' = Call("dispose", NoError)
  /\ UNCHANGED << options, fs, setupResult, processedServiceBindings,
                  contextPromise, contextResolve, resolved, tasks, log >>

\* lines 320-322
Dispose == Close("dispose")

\* lines 303-311: the first binding, in order, whose named service is missing
Unmounted(m) ==
  {i \in DOMAIN processedServiceBindings :
     /\ processedServiceBindings[i].service.type = "string"
     /\ ~Has(m, processedServiceBindings[i].service.id)}

FirstUnmounted(m) ==
  CHOOSE i \in Unmounted(m) : \A j \in Unmounted(m) : i <= j

\* the tail of reload without the call of #contextResolve
OpenNever == resolved

\* the tail of reload resolving every promise created so far
OpenAll == 1..contextPromise

\* line 317: the promises resolved once #contextResolve() has been called
Open == resolved \cup {contextResolve}

\* reload with the assignment of #mounts moved above the validation loop
ReloadAdoptFirst(m) ==
  IF Unmounted(m) # {}
    THEN LET b == processedServiceBindings[FirstUnmounted(m)] IN
         /\ mounts' = Some(m)
         /\ lastCall' = Call("reload", ServiceNotMounted(b.service.id, b.name))
         /\ UNCHANGED << options, fs, setupResult, processedServiceBindings, contextPromise, contextResolve,
                         resolved, tasks, log >>
    ELSE /\ mounts' = Some(m)
         /\ IF contextResolve = 0
              THEN /\ lastCall' = Call("reload", AssertionError)
                   /\ resolved' = resolved
              ELSE /\ lastCall' = Call("reload", NoError)
                   /\ resolved' = Open
         /\ UNCHANGED << options, fs, setupResult, processedServiceBindings, contextPromise, contextResolve,
                         tasks, log >>

\* lines 297-318
Reload(m) ==
  IF Unmounted(m) # {}
    THEN LET b == processedServiceBindings[FirstUnmounted(m)] IN
         /\ lastCall' = Call("reload", ServiceNotMounted(b.service.id, b.name))
         /\ UNCHANGED << options, fs, setupResult, processedServiceBindings, contextPromise, contextResolve,
                         resolved, mounts, tasks, log >>
    ELSE /\ mounts' = Some(m)
         /\ IF contextResolve = 0
              THEN /\ lastCall' = Call("reload", AssertionError)
                   /\ resolved' = resolved
              ELSE /\ lastCall' = Call("reload", NoError)
                   /\ resolved' = Open
         /\ UNCHANGED << options, fs, setupResult, processedServiceBindings, contextPromise, contextResolve,
                         tasks, log >>

Next ==
  \/ \E t \in TaskIds, b \in BindingIds : FetchCustom(t, b)
  \/ \E t \in TaskIds, b \in BindingIds : FetchService(t, b)
  \/ \E t \in TaskIds : GetServiceFetch(t)
  \/ \E t \in TaskIds : Invoke(t)
  \/ BeforeReload
  \/ Dispose
  \/ \E m \in MountTables : Reload(m)

Spec == Init /\ [][Next]_vars

\* ------------------------------------------------- the specification of setup
InitSetup ==
  /\ processedServiceBindings \in ServiceBindingsOptions
  /\ options \in Options
  /\ fs \in FileSystems
  /\ setupResult = NotRun
  /\ contextPromise = 0
  /\ contextResolve = 0
  /\ resolved = {}
  /\ mounts = Undefined
  /\ tasks = [t \in TaskIds |-> IdleTask]
  /\ log = EmptyBag
  /\ lastCall = Call("none", NoError)

Setup ==
  /\ setupResult = NotRun
  /\ setupResult' = SetupOutcome(options, fs, processedServiceBindings)
  /\ UNCHANGED << options, fs, processedServiceBindings, contextPromise,
                  contextResolve, resolved, mounts, tasks, log, lastCall >>

NextSetup == Setup

SpecSetup == InitSetup /\ [][NextSetup]_vars

\* ------------------------------------------------------------------ claims
Done(t) == tasks[t].pc = "done"
Named(t) == ServiceOf(t).type = "string"
Custom(t) == ServiceOf(t).type = "function"

\* C1: when the entry point of a named service throws or rejects, fetch
\* resolves with the 500 response carrying CF-Worker-Status: exception, the
\* error is in the log exactly once and is in no fetch's result.
C1_NamedThrowContained ==
  \A t \in TaskIds :
    (Done(t) /\ Named(t) /\ tasks[t].thrown # NoError) =>
      /\ tasks[t].outcome.kind = "response"
      /\ tasks[t].outcome.status = 500
      /\ tasks[t].outcome.cfWorkerStatus = "exception"
      /\ CopiesIn(tasks[t].thrown, log) = 1
      /\ \A u \in TaskIds : tasks[u].outcome.error # tasks[t].thrown

C1_Witness ==
  \E t \in TaskIds :
    /\ Done(t) /\ Named(t)
    /\ tasks[t].thrown = HandlerError(tasks[t].invoked, t)
    /\ tasks[t].invoked \in Handlers

\* C2: when a custom handler throws, fetch rejects with that very error; no
\* 500 response is made and the log receives nothing.
C2_CustomThrowPropagates ==
  \A t \in TaskIds :
    (Done(t) /\ Custom(t) /\ tasks[t].thrown # NoError) =>
      /\ tasks[t].outcome = Rejected(tasks[t].thrown)
      /\ CopiesIn(tasks[t].thrown, log) = 0

C2_Witness ==
  \E t \in TaskIds :
    /\ Done(t) /\ Custom(t)
    /\ tasks[t].thrown = HandlerError(tasks[t].invoked, t)
    /\ tasks[t].invoked \in CustomHandlers

NamedBindingsMissing(m) ==
  {i \in DOMAIN processedServiceBindings :
     /\ processedServiceBindings[i].service.type = "string"
     /\ m[processedServiceBindings[i].service.id] = NotMounted}

\* C3: a reload whose mount table lacks the service of some binding with a
\* service name throws ERR_SERVICE_NOT_MOUNTED naming that service and that
\* binding, resolves no promise and leaves #mounts as it was; a reload whose
\* table has every named service never throws it, whatever the function
\* bindings are.
C3_ReloadRejectsUnmounted ==
  [][\A m \in MountTables :
       Reload(m) =>
         IF NamedBindingsMissing(m) # {}
           THEN /\ lastCall'.error.code = "ERR_SERVICE_NOT_MOUNTED"
                /\ \E i \in NamedBindingsMissing(m) :
                     /\ lastCall'.error.name = processedServiceBindings[i].name
                     /\ lastCall'.error.service = processedServiceBindings[i].service.id
                /\ resolved' = resolved
                /\ mounts' = mounts
                /\ tasks' = tasks
           ELSE lastCall'.error.code # "ERR_SERVICE_NOT_MOUNTED"]_vars

C3_Witness ==
  /\ lastCall.op = "reload"
  /\ lastCall.error.code = "ERR_SERVICE_NOT_MOUNTED"
  /\ contextResolve # 0
  /\ contextPromise \notin resolved
  /\ mounts = Undefined
  /\ \E t \in TaskIds : tasks[t].pc = "waiting" /\ tasks[t].gen = contextPromise
  /\ \E i \in DOMAIN processedServiceBindings :
       processedServiceBindings[i].service.type = "function"

\* C4: a dispatch that resumes after the await takes the entry point from the
\* mount table that is current at that moment, and that is the entry point
\* it invokes; when that table has none the dispatch ends without invoking.
C4_ResumeReadsCurrentTable ==
  [][\A t \in TaskIds :
       /\ (tasks[t].pc = "waiting" /\ tasks'[t].pc = "invoking") =>
             /\ tasks'[t].fetch = DispatchFetch(ServiceOf(t).id)
             /\ tasks'[t].fetch \in Handlers
       /\ (tasks[t].pc = "waiting" /\ tasks'[t].pc = "done") =>
             /\ DispatchFetch(ServiceOf(t).id) = None
             /\ tasks'[t].invoked = None
       /\ (tasks[t].pc = "invoking" /\ tasks'[t].pc = "done") =>
             tasks'[t].invoked = tasks[t].fetch]_vars

\* the dispatch was issued under {auth: H1}, a second cycle installed
\* {auth: H2}, and the resumed dispatch holds H2
C4_Witness ==
  \E t \in TaskIds :
    /\ tasks[t].pc = "invoking"
    /\ tasks[t].issued = "H1"
    /\ tasks[t].fetch = "H2"
    /\ contextPromise = 2
    /\ resolved = {1, 2}

Contributes(source, n) == \E i \in DOMAIN source : source[i][1] = n
ValueIn(source, n) == source[CHOOSE i \in DOMAIN source : source[i][1] = n][2]

\* what the variable file contributed: its entries when it was read
FileEntries ==
  IF Truthy(SetupEnvPath(options)) /\ fs.env.code = None
    THEN fs.env.entries ELSE << >>

\* the five sources in ascending priority
Sources ==
  << options.kWranglerBindings, FileEntries, options.wasmBindings,
     ServiceEntries(processedServiceBindings), options.bindings >>

Contributors(n) == {k \in DOMAIN Sources : Contributes(Sources[k], n)}
Highest(n) == CHOOSE k \in Contributors(n) : \A j \in Contributors(n) : j <= k

\* C5: in the mapping setup returns, every name has the value of the
\* highest-priority source that contributes it (platform variables <
\* variable file < binary modules < service bindings < user bindings),
\* whatever the order of the entries inside the sources; a name no source
\* contributes is absent.
C5_HighestPrioritySourceWins ==
  setupResult.state = "returned" =>
    \A n \in Names :
      IF Contributors(n) = {}
        THEN setupResult.bindings[n] = Absent
        ELSE setupResult.bindings[n] = ValueIn(Sources[Highest(n)], n)

\* the variable file and the user bindings both give A, every source but the
\* user bindings gives B, and the platform variables are not in the order
\* of the file
C5_Witness ==
  /\ setupResult.state = "returned"
  /\ FileEntries = << << "A", FileValue >>, << "B", FileValue >> >>
  /\ options.bindings = << << "A", UserValue >> >>
  /\ Contributors("B") = {1, 2, 3, 4}
  /\ options.kWranglerBindings = << << "B", WranglerValue >>, << "A", WranglerValue >> >>
  /\ setupResult.bindings["A"] = UserValue
  /\ setupResult.bindings["B"].kind = "Fetcher"

Waiting(t) == tasks[t].pc = "waiting"
ReloadSucceeds(m) == Reload(m) /\ lastCall'.error = NoError

\* C6: one successful reload resolves the promise of every dispatch waiting
\* on the current generation, however many there are, and a dispatch that
\* has resumed never waits again.
C6_OneOpenResolvesAllWaiters ==
  [][/\ \A m \in MountTables :
          ReloadSucceeds(m) =>
            \A t \in TaskIds :
              (Waiting(t) /\ tasks[t].gen = contextPromise) =>
                 tasks[t].gen \in resolved'
     /\ \A t \in TaskIds :
          tasks[t].pc \in {"invoking", "done"} => tasks'[t].pc # "waiting"]_vars

\* two dispatches were issued while the gate was closed (the table had no
\* entry then) and both have resumed after the only open there has been
C6_Witness ==
  /\ contextPromise = 1
  /\ resolved = {1}
  /\ \E t, u \in TaskIds :
       /\ t # u
       /\ tasks[t].pc = "invoking" /\ tasks[t].issued = None
       /\ tasks[u].pc = "invoking" /\ tasks[u].issued = None

\* C7: only the current generation's promise is ever resolved, so a dispatch
\* waiting on a generation that was superseded before it was opened stays
\* waiting, unchanged, in every later step; and no waiting dispatch moves
\* while its promise is unresolved.
C7_SupersededWaitersNeverResume ==
  [][/\ resolved \subseteq resolved'
     /\ (resolved' \ resolved) \subseteq {contextPromise}
     /\ \A t \in TaskIds :
          (Waiting(t) /\ tasks[t].gen \notin resolved /\ tasks[t].gen # contextPromise) =>
             /\ tasks'[t] = tasks[t]
             /\ tasks[t].gen \notin resolved'
             /\ tasks[t].gen # contextPromise'
     /\ \A t \in TaskIds :
          (Waiting(t) /\ tasks[t].gen \notin resolved') => tasks'[t] = tasks[t]]_vars

\* a dispatch waits on generation 1, which was superseded unopened, and the
\* reload of generation 2 has succeeded
C7_Witness ==
  /\ contextPromise = 2
  /\ resolved = {2}
  /\ lastCall = Call("reload", NoError)
  /\ \E t \in TaskIds : Waiting(t) /\ tasks[t].gen = 1

\* C8 as stated: every dispatch made before any beforeReload (or dispose) has
\* run ends in the assertion failure, with no handler invoked.
C8_Original_AnyFetcherAsserts ==
  contextPromise = 0 =>
    \A t \in TaskIds :
      Done(t) => /\ tasks[t].outcome = Rejected(AssertionError)
                 /\ tasks[t].invoked = None

\* C8: a dispatch on a Fetcher bound to a service name, made before any
\* beforeReload or dispose has run, rejects with the assertion failure: no
\* response, no 500 response, no handler invoked, nothing logged.
C8_NamedFetcherAssertsBeforeFirstCycle ==
  contextPromise = 0 =>
    /\ \A t \in TaskIds :
         (tasks[t].pc # "idle" /\ Named(t)) =>
            /\ Done(t)
            /\ tasks[t].outcome = Rejected(AssertionError)
            /\ tasks[t].invoked = None
    /\ log = EmptyBag

\* the table was even adopted by a reload that failed its assertion
C8_Witness ==
  /\ contextPromise = 0
  /\ mounts # Undefined
  /\ \E t \in TaskIds : Done(t) /\ Named(t) /\ mounts[1][ServiceOf(t).id] \in Handlers

\* C9 as stated: a reload that follows no beforeReload since the previous
\* reload (the first lifecycle call, or the call after a successful reload)
\* throws, resolves nothing and does not adopt the table.
C9_Original_ReloadNeedsBeforeReload ==
  [][\A m \in MountTables :
       (/\ \/ lastCall.op = "none"
            \/ lastCall = Call("reload", NoError)
        /\ Reload(m)) =>
          /\ lastCall'.error # NoError
          /\ resolved' = resolved
          /\ mounts' = mounts]_vars

\* C10 as stated: the lifecycle call that follows dispose never opens the gate.
C10_Original_NoOpenAfterDispose ==
  [][lastCall.op = "dispose" => resolved' = resolved]_vars

\* C10: while dispose is the latest lifecycle call, the mount-table reference
\* is dropped, the current generation is closed and holds the resolve
\* function, and no dispatch waiting on it can resume.
C10_DisposeClosesUntilReload ==
  lastCall.op = "dispose" =>
    /\ mounts = Undefined
    /\ contextPromise # 0
    /\ contextPromise \notin resolved
    /\ contextResolve = contextPromise
    /\ \A t \in TaskIds :
         (Waiting(t) /\ tasks[t].gen = contextPromise) => ~ENABLED GetServiceFetch(t)

\* dispose came after an open gate, and a dispatch issued since is suspended
C10_Witness ==
  /\ lastCall.op = "dispose"
  /\ resolved # {}
  /\ \E t \in TaskIds : Waiting(t) /\ tasks[t].gen = contextPromise

\* C11 as stated: no fetch, on a named service or on a custom handler, ends
\* with the error its callee raised.
C11_Original_NoRawCalleeException ==
  \A t \in TaskIds : tasks[t].outcome.error.code # "thrown"

\* C11: a fetch on a Fetcher bound to a service name is suspended or ends in
\* the entry point's response, in the 500 response or in the rejection by a
\* failed assertion, never in the error its callee raised; a fetch on a
\* custom handler ends in the handler's response or in the handler's error.
C11_OutcomesOfDispatch ==
  \A t \in TaskIds :
    /\ Named(t) =>
         /\ tasks[t].outcome.error.code # "thrown"
         /\ IF Done(t)
              THEN \/ /\ tasks[t].invoked \in Handlers
                      /\ tasks[t].thrown = NoError
                      /\ tasks[t].outcome = HandlerResponse(tasks[t].invoked)
                   \/ /\ tasks[t].invoked \in Handlers
                      /\ tasks[t].thrown # NoError
                      /\ tasks[t].outcome = ExceptionResponse
                   \/ /\ tasks[t].invoked = None
                      /\ tasks[t].outcome = Rejected(AssertionError)
              ELSE tasks[t].outcome = Pending
    /\ Custom(t) =>
         /\ Done(t)
         /\ \/ tasks[t].outcome = HandlerResponse(tasks[t].invoked)
            \/ /\ tasks[t].thrown # NoError
               /\ tasks[t].outcome = Rejected(tasks[t].thrown)

\* one dispatch ended in the 500 response while another is suspended on a
\* generation that was superseded unopened
C11_Witness ==
  \E t, u \in TaskIds :
    /\ Named(t) /\ Done(t) /\ tasks[t].outcome = ExceptionResponse
    /\ Named(u) /\ Waiting(u) /\ tasks[u].gen \notin resolved
    /\ tasks[u].gen # contextPromise

\* C12: a fetch on a Fetcher bound to a handler function is never suspended
\* and holds no entry point of the mount table: it has invoked the handler
\* and its result is the handler's; in every state the next fetch on such a
\* Fetcher can run.
C12_CustomFetchIgnoresLifecycle ==
  /\ \A t \in TaskIds :
       Custom(t) =>
         /\ Done(t)
         /\ tasks[t].gen = 0 /\ tasks[t].fetch = None
         /\ tasks[t].invoked = ServiceOf(t).id
         /\ tasks[t].outcome \in {HandlerResponse(ServiceOf(t).id),
                                   Rejected(HandlerError(ServiceOf(t).id, t))}
  /\ \A t \in TaskIds, b \in DOMAIN processedServiceBindings :
       (NextToIssue(t) /\ processedServiceBindings[b].service.type = "function")
          => ENABLED FetchCustom(t, b)

\* the first fetch was issued while the gate was closed and still waits, a
\* reload has failed since, and the later fetch on the custom handler has
\* the handler's response
C12_Witness ==
  /\ MaxTasks >= 2
  /\ Waiting(1) /\ tasks[1].gen = contextPromise /\ contextPromise \notin resolved
  /\ lastCall.error.code = "ERR_SERVICE_NOT_MOUNTED"
  /\ Custom(2) /\ tasks[2].outcome = HandlerResponse("F")

\* C13: ERR_SERVICE_NOT_MOUNTED is thrown by reload alone: no fetch ends in
\* it and the log never receives it; a dispatch that finds no entry point
\* fails its assertion instead.
C13_NotMountedOnlyFromReload ==
  /\ \A t \in TaskIds :
       /\ tasks[t].outcome.error.code # "ERR_SERVICE_NOT_MOUNTED"
       /\ tasks[t].thrown.code # "ERR_SERVICE_NOT_MOUNTED"
  /\ \A e \in BagToSet(log) : e.code # "ERR_SERVICE_NOT_MOUNTED"
  /\ lastCall.error.code = "ERR_SERVICE_NOT_MOUNTED" => lastCall.op = "reload"

\* a reload has thrown the error after the gate had been opened, the table
\* has been dropped, and a named-service dispatch has failed its assertion
C13_Witness ==
  /\ lastCall.error.code = "ERR_SERVICE_NOT_MOUNTED"
  /\ resolved # {}
  /\ mounts = Undefined
  /\ \E t \in TaskIds :
       Named(t) /\ Done(t) /\ tasks[t].outcome = Rejected(AssertionError)

\* C14 as stated: whenever a waiting dispatch can continue (its promise is
\* resolved), the current mount table is defined and has an entry point for
\* its service, so the assertion of line 229 cannot fail.
C14_Original_EntryPointAlwaysFound ==
  \A t \in TaskIds :
    (Waiting(t) /\ tasks[t].gen \in resolved) =>
       DispatchFetch(ServiceOf(t).id) \in Handlers

\* C15 as stated: a reload that throws, for an unmounted service or for the
\* missing beforeReload, leaves #mounts, the promise, its resolve function,
\* the resolved promises and the waiting dispatches as they were.
C15_Original_FailedReloadChangesNothing ==
  [][\A m \in MountTables :
       (Reload(m) /\ lastCall'.error # NoError) =>
          UNCHANGED << mounts, contextPromise, contextResolve, resolved, tasks >>]_vars

IssuedNow(t) == tasks[t].pc = "idle" /\ tasks'[t].pc = "waiting"

\* C16: a successful reload leaves the current generation resolved, and a
\* dispatch issued while it is resolved waits on a resolved promise, so it
\* can resume with no further lifecycle call; beforeReload and dispose leave
\* a current generation that is unresolved, and a dispatch issued then waits
\* on it and cannot resume.
C16_OpenUntilNextClose ==
  [][/\ \A m \in MountTables :
          ReloadSucceeds(m) => contextPromise' \in resolved'
     /\ (lastCall'.op \in {"beforeReload", "dispose"} /\ lastCall' # lastCall) =>
          contextPromise' \notin resolved'
     /\ (lastCall.op \in {"beforeReload", "dispose"}) => contextPromise \notin resolved
     /\ (lastCall = Call("reload", NoError)) => contextPromise \in resolved
     /\ \A t \in TaskIds :
          IssuedNow(t) =>
            /\ tasks'[t].gen = contextPromise
            /\ (contextPromise \in resolved) => (ENABLED GetServiceFetch(t))'
            /\ (contextPromise \notin resolved) => ~(ENABLED GetServiceFetch(t))']_vars

\* a dispatch passed the gate of generation 1 and got its response, and a
\* dispatch issued after the next beforeReload waits on generation 2
C16_Witness ==
  /\ resolved = {1}
  /\ contextPromise = 2
  /\ \E t, u \in TaskIds :
       /\ t < u
       /\ Named(t) /\ Done(t) /\ tasks[t].outcome.status = 200
       /\ Waiting(u) /\ tasks[u].gen = 2

\* C17 as stated, in its finitely refutable part: a dispatch that was
\* suspended and whose generation a successful reload has opened resumes by
\* obtaining its target's entry point and going on to invoke it. (dispose
\* runs beforeReload, line 321, so every generation is created by a
\* beforeReload, and only the reload that follows it with no beforeReload or
\* dispose in between can resolve it.)
C17_Original_ReleasedDispatchInvokes ==
  [][\A t \in TaskIds :
       (Waiting(t) /\ tasks'[t].pc # "waiting") =>
          /\ tasks'[t].pc = "invoking"
          /\ tasks'[t].fetch \in Handlers]_vars

\* C18: whenever the current promise is resolved, #mounts is defined and has
\* a key for every service binding that names a service; whenever there is
\* a current promise that is not resolved, #mounts is undefined.
C18_OpenGateHasValidTable ==
  /\ (contextPromise # 0 /\ contextPromise \in resolved) =>
        /\ mounts # Undefined
        /\ \A i \in DOMAIN processedServiceBindings :
             processedServiceBindings[i].service.type = "string" =>
               Has(mounts[1], processedServiceBindings[i].service.id)
  /\ (contextPromise # 0 /\ contextPromise \notin resolved) => mounts = Undefined

\* the gate is open over a table that mounts the named service, and the last
\* lifecycle call was a reload that failed validation
C18_Witness ==
  /\ contextPromise = 1
  /\ resolved = {1}
  /\ mounts # Undefined
  /\ \E i \in DOMAIN processedServiceBindings :
       /\ processedServiceBindings[i].service.type = "string"
       /\ Has(mounts[1], processedServiceBindings[i].service.id)
  /\ lastCall.op = "reload"
  /\ lastCall.error.code = "ERR_SERVICE_NOT_MOUNTED"

\* C19: a beforeReload that directly follows a beforeReload starts and ends
\* with the gate closed and #mounts undefined, changes no dispatch, resolves
\* nothing and installs a promise that did not exist before, whose resolve
\* function is the one stored; the successful reload that comes next
\* resolves the current promise and no other, so a dispatch waiting on a
\* superseded promise stays suspended.
C19_RepeatedBeforeReload ==
  [][/\ (lastCall.op = "beforeReload" /\ BeforeReload) =>
          /\ mounts = Undefined /\ mounts' = Undefined
          /\ contextPromise \notin resolved /\ contextPromise' \notin resolved'
          /\ contextPromise' \notin 0..contextPromise
          /\ contextResolve' = contextPromise'
          /\ resolved' = resolved
          /\ lastCall' = lastCall
          /\ tasks' = tasks
          /\ \A t \in TaskIds :
               (Waiting(t) /\ tasks[t].gen = contextPromise) =>
                  tasks'[t].gen # contextPromise'
     /\ \A m \in MountTables :
          (lastCall.op = "beforeReload" /\ ReloadSucceeds(m)) =>
             /\ contextPromise' = contextPromise
             /\ resolved' = resolved \cup {contextPromise}
             /\ mounts' = Some(m)
             /\ \A t \in TaskIds :
                  (Waiting(t) /\ tasks[t].gen \notin resolved') =>
                     ~(ENABLED GetServiceFetch(t))']_vars

\* beforeReload has just run for the second time in a row: a dispatch that
\* was issued between the two calls waits on promise 1, the current promise
\* is 2, and nothing is resolved
C19_Witness ==
  /\ lastCall.op = "beforeReload"
  /\ contextPromise = 2
  /\ resolved = {}
  /\ mounts = Undefined
  /\ \E t \in TaskIds : Waiting(t) /\ tasks[t].gen = 1

DefaultEnvPath == ConstructorEnvPath(options) = EnvBoolean(TRUE)
ExplicitEnvPath == ConstructorEnvPath(options).type = "string"
WasmReadFails == options.wasmBindings # << >> /\ fs.wasm # None

\* the watch list when the variable file at path p is read
WatchWith(p) ==
  << Resolve(p) >> \o
    [i \in DOMAIN options.wasmBindings |-> Resolve(options.wasmBindings[i][2].val)]

\* C20: once setup has run. With the default path (envPath true, or undefined
\* with envPathDefaultFallback) and no file there, the missing file makes
\* setup throw nothing: setup returns whenever its other reads succeed, the
\* result is composed from the four other sources alone and the resolved
\* path of .env heads the watch list. With an explicit path that cannot be
\* read, or the default path and a failure other than ENOENT, setup throws
\* that error.
C20_MissingDefaultFileIgnored ==
  setupResult # NotRun =>
    /\ (DefaultEnvPath /\ fs.env.code = "ENOENT") =>
          IF WasmReadFails
            THEN setupResult = Threw(fs.wasm)
            ELSE /\ setupResult.state = "returned"
                 /\ setupResult.bindings =
                      Compose(options.kWranglerBindings, << >>, options.wasmBindings,
                              ServiceEntries(processedServiceBindings), options.bindings)
                 /\ setupResult.watch = WatchWith(".env")
    /\ (ExplicitEnvPath /\ fs.env.code # None) => setupResult = Threw(fs.env.code)
    /\ (DefaultEnvPath /\ fs.env.code \notin {None, "ENOENT"}) =>
          setupResult = Threw(fs.env.code)

\* envPath was left undefined with the fallback set, there is no .env file,
\* the platform variables give a name, and setup returned with the path of
\* .env first on the watch list, before the path of a binary module
C20_Witness ==
  /\ options.envPath = EnvUndefined
  /\ options.envPathDefaultFallback
  /\ fs.env = ReadFails("ENOENT")
  /\ options.kWranglerBindings # << >>
  /\ options.wasmBindings # << >>
  /\ setupResult.state = "returned"
  /\ Len(setupResult.watch) = 2
  /\ setupResult.watch[1] = Resolve(".env")
====
